---- MODULE Spec2Model ----
(***************************************************************************)
(* list_not_found_ami_snapshot.py: main lists the account's snapshots and  *)
(* images page by page, takes the set difference of the two id sets, tags  *)
(* the difference with NotAttachedAMI=True and writes it to a text file.   *)
(* Every provider call and every file operation is one step, so that the   *)
(* provider (and, in SpecEnv, other actors) can be observed between them.  *)
(***************************************************************************)
EXTENDS Naturals, Sequences, FiniteSets, TLC

(* ----------------------------- bounds --------------------------------- *)
\* ids the provider may hand out: snapshot i, and image i made with it
MaxSnapshots == 2
\* calls of main in one behaviour
MaxRuns == 2

(* ------------------------- values of the code ------------------------- *)
\* the default of every .get(..., "") on an id
EmptyString == ""
\* the default of snapshot.get("Description", ""), as a sequence of words
EmptyDescription == <<>>
\* the default of block.get("Ebs", {})
EmptyDict == <<>>
\* "Created by CreateImage", as a sequence of words
Marker == <<"Created", "by", "CreateImage">>
\* msg, the one message of main's except clause ("main function error", in Japanese)
MainErrorMsg == "main function error"
Newline == "\n"

(* --------------------------- provider data ---------------------------- *)
SnapshotNames == <<"snap-1", "snap-2", "snap-3", "snap-4", "snap-5">>
ImageNames == <<"ami-1", "ami-2", "ami-3", "ami-4", "ami-5">>

ImageDerivedDescription == <<"Created", "by", "CreateImage", "for", "ami">>
ManualDescription == <<"manual", "backup">>

\* dict.get(key, default)
Get(rec, key, default) == IF key \in DOMAIN rec THEN rec[key] ELSE default

\* Python's `marker in description`: a contiguous occurrence (descriptions
\* are sequences of words here, the marker three of them)
Contains(marker, description) ==
    \E i \in 0..Len(description) :
        /\ i + Len(marker) <= Len(description)
        /\ \A k \in 1..Len(marker) : description[i + k] = marker[k]

(* ------------------------- the provider's state ----------------------- *)
VARIABLES
    snapshots,      \* the account's snapshot records, as describe_snapshots returns them
    images,         \* the account's image records, as describe_images returns them
    tags,           \* the provider's tags: records [Resource, Key, Value]
    allocated,      \* how many ids the provider has handed out (fresh ids follow)
    file            \* the export file: Absent, or its content as a sequence of strings

(* ------------------------- one call of main --------------------------- *)
VARIABLES
    pc,                      \* where main is
    run,                     \* how many calls of main have started
    todo,                    \* records the running paginator has not returned yet
    base,                    \* records that existed when the running listing began
    snapshots_set,           \* list_snapshot's result
    amis_set,                \* list_ami's result
    unassociated_snapshots,  \* main's difference
    towrite,                 \* ids export_text's loop has not written yet
    outcome                  \* what main gave its caller: a value or an exception

(* ----------------------------- observers ------------------------------ *)
VARIABLES
    started,        \* the steps of this call that issued a request, in order
    done,           \* the steps of this call that completed without error
    tagRequests,    \* the Resources of every create_tags request of this call
    failed,         \* the step whose exception ended this call, or ""
    fileAtStart,    \* file when this call began
    tagsAtStart,    \* tags when this call began
    prev            \* how the previous call ended

provider == <<snapshots, images, allocated>>
locals == <<todo, base, snapshots_set, amis_set, unassociated_snapshots, towrite>>
observers == <<started, done, tagRequests, failed, fileAtStart, tagsAtStart, prev>>
vars == <<snapshots, images, tags, allocated, file, pc, run, todo, base,
          snapshots_set, amis_set, unassociated_snapshots, towrite, outcome,
          started, done, tagRequests, failed, fileAtStart, tagsAtStart, prev>>

Absent == [exists |-> FALSE, content |-> <<>>]
Content(c) == [exists |-> TRUE, content |-> c]

NoCause == [type |-> "", operation |-> ""]
NoError == [msg |-> "", cause |-> NoCause]
NoOutcome == [kind |-> "none", value |-> {}, error |-> NoError]
NoRun == [outcome |-> NoOutcome, failed |-> "", tags |-> {}]

(* --------------------------- the pure parts --------------------------- *)
\* a tag value that differs from one call of main to the next
TagsStamped == {[Key |-> "NotAttachedAMI", Value |-> IF run > 1 THEN "True again" ELSE "True"]}

\* Tags=[{"Key": "NotAttachedAMI", "Value": "True"}]
Tags == {[Key |-> "NotAttachedAMI", Value |-> "True"]}

\* list_snapshot's loop body over one page
SnapshotPageIds(page) ==
    {Get(snapshot, "SnapshotId", EmptyString) :
        snapshot \in {s \in page :
            Contains(Marker, Get(s, "Description", EmptyDescription))}}

\* list_ami's two lines on one block
BlockSnapshotId(block) == Get(Get(block, "Ebs", EmptyDict), "SnapshotId", EmptyString)

\* list_ami's loop body over one page
AmiPageIds(page) ==
    UNION {{BlockSnapshotId(Get(ami, "BlockDeviceMappings", <<>>)[k]) :
                k \in DOMAIN Get(ami, "BlockDeviceMappings", <<>>)} : ami \in page}

PageIds(kind, page) ==
    IF kind = "list_snapshot" THEN SnapshotPageIds(page) ELSE AmiPageIds(page)

\* snapshots_set - amis_set
Unassociated(s, a) == s \ a

\* the if dropped: remediation whatever the set holds
AlwaysRemediate(u) == TRUE

\* if unassociated_snapshots:
NeedsRemediation(u) == u # {}

\* the images listed before the snapshots
ListingOrderSwapped == <<"list_ami", "list_snapshot">>

\* the order of main's two listings
ListingOrder == <<"list_snapshot", "list_ami">>

\* the provider's create_tags: a key is set, or overwritten, on every resource
CreateTags(ts, resources, kvs) ==
    {t \in ts : ~(t.Resource \in resources /\ t.Key \in {kv.Key : kv \in kvs})}
    \cup {[Resource |-> r, Key |-> kv.Key, Value |-> kv.Value] : r \in resources, kv \in kvs}

\* open("a"): what the file held stays
OpenForAppend(f) == IF f.exists THEN f ELSE Content(<<>>)

\* export_path.open("w"): the file exists and is empty
OpenForWrite(f) == Content(<<>>)

\* file.write(f"{snapshot_id}\n")
WriteLine(f, snapshot_id) == Content(f.content \o <<snapshot_id, Newline>>)

\* a message of its own for every step
WrapErrorByStep(step, cause) == [msg |-> step, cause |-> cause]

\* raise Exception(msg) from e
WrapError(step, cause) == [msg |-> MainErrorMsg, cause |-> cause]

\* what a request to the provider can raise once the client's retries are spent
RequestErrors(operation) ==
    {[type |-> "EndpointConnectionError", operation |-> ""],
     [type |-> "ClientError", operation |-> operation]}

\* what a file operation can raise
FileErrors(operation) == {[type |-> "OSError", operation |-> operation]}

Operation(kind) == IF kind = "list_snapshot" THEN "DescribeSnapshots" ELSE "DescribeImages"

Records(kind) == IF kind = "list_snapshot" THEN snapshots ELSE images

Start(step) == IF \E i \in DOMAIN started : started[i] = step THEN started
               ELSE Append(started, step)

\* the difference taken as soon as the first listing is through
AfterListingEarly(kind) == "reconcile"

\* where main goes when a listing has returned its last page
AfterListing(kind) == IF kind = ListingOrder[1] THEN ListingOrder[2] ELSE "reconcile"

\* every image-derived snapshot tagged, referenced or not
TagResourcesAll(u) == snapshots_set

\* Resources=list(unassociated_snapshots): the same ids, in some order
TagResources(u) == u

(* ------------------------------ Init ---------------------------------- *)
\* block-device mappings, as describe_images returns them
Ebs(id) == [DeviceName |-> "/dev/sda1", Ebs |-> [SnapshotId |-> id]]
EbsWithoutSnapshot == [DeviceName |-> "/dev/sdb", Ebs |-> [VolumeSize |-> "8"]]
Ephemeral == [DeviceName |-> "/dev/sdc", VirtualName |-> "ephemeral0"]

SnapshotKinds == <<"absent", "derived", "manual", "undescribed">>
SnapshotRecord(id, kind) ==
    IF kind = "derived" THEN [SnapshotId |-> id, Description |-> ImageDerivedDescription]
    ELSE IF kind = "manual" THEN [SnapshotId |-> id, Description |-> ManualDescription]
    ELSE [SnapshotId |-> id]
\* a record of the listing that carries no SnapshotId
UnidentifiedSnapshot == [Description |-> ImageDerivedDescription]

\* image i is the image snapshot i was made for: registered or not
ImageKinds == <<"absent", "registered">>
ImageRecord(i) == [ImageId |-> ImageNames[i], BlockDeviceMappings |-> <<Ebs(SnapshotNames[i])>>]

\* one more image, of every other shape list_ami reads
OtherImages ==
    {[ImageId |-> "ami-0"],
     [ImageId |-> "ami-0", BlockDeviceMappings |-> <<>>],
     [ImageId |-> "ami-0", BlockDeviceMappings |-> <<Ephemeral>>],
     [ImageId |-> "ami-0", BlockDeviceMappings |-> <<EbsWithoutSnapshot>>],
     [ImageId |-> "ami-0", BlockDeviceMappings |->
         <<Ebs(SnapshotNames[1]), Ebs(SnapshotNames[MaxSnapshots]), Ephemeral>>]}

\* what id i stands for at the start: its snapshot's kind and its image's
NumSlotKinds == Len(SnapshotKinds) * Len(ImageKinds)
SlotSnapshot(k) == SnapshotKinds[((k - 1) % Len(SnapshotKinds)) + 1]
SlotImage(k) == ImageKinds[((k - 1) \div Len(SnapshotKinds)) + 1]

\* The code compares ids only for equality, so of the assignments of kinds to
\* ids that differ by a renaming of the ids one is kept: the ascending one.
SlotAssignments ==
    {f \in [1..MaxSnapshots -> 1..NumSlotKinds] :
        \A i, j \in 1..MaxSnapshots : i < j => f[i] <= f[j]}

\* tags the snapshots carry before main ever ran
InitialTags(snaps) ==
    {[Resource |-> s.SnapshotId, Key |-> "Name", Value |-> "backup"] :
        s \in {r \in snaps : "SnapshotId" \in DOMAIN r /\ "Description" \notin DOMAIN r}}

\* an export file an earlier run left behind
StaleFile == Content(<<"snap-0", Newline>>)

InitMain ==
    /\ pc = "idle"
    /\ run = 0
    /\ todo = {} /\ base = {}
    /\ snapshots_set = {} /\ amis_set = {} /\ unassociated_snapshots = {}
    /\ towrite = {}
    /\ outcome = NoOutcome
    /\ started = <<>> /\ done = {} /\ tagRequests = <<>> /\ failed = ""
    /\ fileAtStart = Absent /\ tagsAtStart = {}
    /\ prev = NoRun

Init ==
    /\ \E f \in SlotAssignments, unidentified \in SUBSET {UnidentifiedSnapshot},
          other \in {o \in SUBSET OtherImages : Cardinality(o) <= 1} :
          /\ snapshots = {SnapshotRecord(SnapshotNames[i], SlotSnapshot(f[i])) :
                              i \in {k \in 1..MaxSnapshots : SlotSnapshot(f[k]) # "absent"}}
                         \cup unidentified
          /\ images = {ImageRecord(i) :
                              i \in {k \in 1..MaxSnapshots : SlotImage(f[k]) = "registered"}}
                      \cup other
    /\ tags = InitialTags(snapshots)
    /\ allocated = MaxSnapshots
    /\ file \in {Absent, StaleFile}
    /\ InitMain

(* ----------------------------- actions -------------------------------- *)
\* main is called: list_snapshot builds its paginator
StartRun ==
    /\ pc \in {"idle", "returned", "raised"}
    /\ run < MaxRuns
    /\ run' = run + 1
    /\ prev' = IF run = 0 THEN NoRun ELSE [outcome |-> outcome, failed |-> failed, tags |-> tags]
    /\ pc' = ListingOrder[1]
    /\ todo' = Records(ListingOrder[1])
    /\ base' = Records(ListingOrder[1])
    /\ snapshots_set' = {} /\ amis_set' = {} /\ unassociated_snapshots' = {}
    /\ towrite' = {}
    /\ outcome' = NoOutcome
    /\ started' = <<>> /\ done' = {} /\ tagRequests' = <<>> /\ failed' = ""
    /\ fileAtStart' = file /\ tagsAtStart' = tags
    /\ UNCHANGED <<provider, tags, file>>

\* except Exception as e: raise Exception(msg) from e
Raise(step, cause) ==
    /\ pc' = "raised"
    /\ outcome' = [kind |-> "raised", value |-> {}, error |-> WrapError(step, cause)]
    /\ failed' = step
    /\ started' = Start(step)
    /\ todo' = {} /\ base' = {} /\ towrite' = {}
    /\ UNCHANGED <<provider, tags, run, snapshots_set, amis_set, unassociated_snapshots,
                   done, fileAtStart, tagsAtStart, prev>>

\* return unassociated_snapshots
Return(value) ==
    /\ pc' = "returned"
    /\ outcome' = [kind |-> "returned", value |-> value, error |-> NoError]
    /\ todo' = {} /\ base' = {} /\ towrite' = {}

\* one page of a paginator: the records of the page that still exist, and
\* possibly records created since the listing began
ListPage(kind) ==
    /\ pc = kind
    /\ \E page \in SUBSET todo, extra \in SUBSET (Records(kind) \ base) :
          /\ page # {} \/ todo = {}
          /\ LET content == (page \cap Records(kind)) \cup extra
                 ids == PageIds(kind, content)
                 last == todo \ page = {}
                 next == AfterListing(kind)
             IN /\ snapshots_set' = IF kind = "list_snapshot" THEN snapshots_set \cup ids
                                    ELSE snapshots_set
                /\ amis_set' = IF kind = "list_ami" THEN amis_set \cup ids ELSE amis_set
                /\ IF ~last
                   THEN /\ todo' = todo \ page
                        /\ UNCHANGED <<pc, base, done>>
                   ELSE /\ pc' = next
                        /\ done' = done \cup {kind}
                        /\ todo' = IF next = "reconcile" THEN {} ELSE Records(next)
                        /\ base' = IF next = "reconcile" THEN {} ELSE Records(next)
    /\ started' = Start(kind)
    /\ UNCHANGED <<provider, tags, file, run, unassociated_snapshots, towrite, outcome,
                   tagRequests, failed, fileAtStart, tagsAtStart, prev>>

\* a page request fails for good
ListPageFails(kind) ==
    /\ pc = kind
    /\ \E cause \in RequestErrors(Operation(kind)) : Raise(kind, cause)
    /\ UNCHANGED <<file, tagRequests>>

ListSnapshot == ListPage("list_snapshot") \/ ListPageFails("list_snapshot")

ListAmi == ListPage("list_ami") \/ ListPageFails("list_ami")

\* unassociated_snapshots = snapshots_set - amis_set, and the if
Reconcile ==
    /\ pc = "reconcile"
    /\ LET u == Unassociated(snapshots_set, amis_set)
       IN /\ unassociated_snapshots' = u
          /\ IF NeedsRemediation(u)
             THEN /\ pc' = "grant_tag"
                  /\ UNCHANGED <<outcome, todo, base, towrite>>
             ELSE Return(u)
    /\ UNCHANGED <<provider, tags, file, run, snapshots_set, amis_set, observers>>

\* grant_tag's exception swallowed: main goes on to export_text
GrantTagSwallowed(cause) ==
    /\ pc' = "export_open"
    /\ started' = Start("grant_tag")
    /\ UNCHANGED <<provider, tags, file, run, locals, outcome, done, failed,
                   fileAtStart, tagsAtStart, prev>>

\* grant_tag raised
GrantTagRaises(cause) ==
    /\ Raise("grant_tag", cause)
    /\ UNCHANGED file

\* grant_tag: one create_tags request
GrantTag ==
    /\ pc = "grant_tag"
    /\ \/ /\ tags' = CreateTags(tags, TagResources(unassociated_snapshots), Tags)
          /\ tagRequests' = Append(tagRequests, TagResources(unassociated_snapshots))
          /\ started' = Start("grant_tag")
          /\ done' = done \cup {"grant_tag"}
          /\ pc' = "export_open"
          /\ UNCHANGED <<provider, file, run, locals, outcome, failed, fileAtStart,
                         tagsAtStart, prev>>
       \/ /\ \E cause \in RequestErrors("CreateTags") : GrantTagRaises(cause)
          /\ tagRequests' = Append(tagRequests, TagResources(unassociated_snapshots))

\* export_text: export_path.open("w")
ExportOpen ==
    /\ pc = "export_open"
    /\ \/ /\ file' = OpenForWrite(file)
          /\ started' = Start("export_text")
          /\ IF unassociated_snapshots = {}
             THEN /\ Return(unassociated_snapshots)
                  /\ done' = done \cup {"export_text"}
             ELSE /\ pc' = "export_write"
                  /\ towrite' = unassociated_snapshots
                  /\ UNCHANGED <<outcome, todo, base, done>>
          /\ UNCHANGED <<provider, tags, run, snapshots_set, amis_set,
                         unassociated_snapshots, tagRequests, failed, fileAtStart,
                         tagsAtStart, prev>>
       \/ /\ \E cause \in FileErrors("open") : Raise("export_text", cause)
          /\ UNCHANGED <<file, tagRequests>>

\* export_text: one turn of the loop over the set, in the set's own order;
\* the with block closes the file on every way out
ExportWrite ==
    /\ pc = "export_write"
    /\ \/ /\ \E snapshot_id \in towrite :
                /\ file' = WriteLine(file, snapshot_id)
                /\ IF towrite = {snapshot_id}
                   THEN /\ Return(unassociated_snapshots)
                        /\ done' = done \cup {"export_text"}
                   ELSE /\ towrite' = towrite \ {snapshot_id}
                        /\ UNCHANGED <<pc, outcome, todo, base, done>>
          /\ UNCHANGED <<provider, tags, run, snapshots_set, amis_set,
                         unassociated_snapshots, started, tagRequests, failed,
                         fileAtStart, tagsAtStart, prev>>
       \/ /\ \E cause \in FileErrors("write") : Raise("export_text", cause)
          /\ UNCHANGED <<file, tagRequests>>

Main == StartRun \/ ListSnapshot \/ ListAmi \/ Reconcile \/ GrantTag \/ ExportOpen \/ ExportWrite

Next == Main

Spec == Init /\ [][Next]_vars

(* ------------------- other actors on the same account ----------------- *)
\* create_image: a fresh image, and with it the fresh snapshot it alone references
CreateImage ==
    /\ allocated < MaxSnapshots
    /\ allocated' = allocated + 1
    /\ snapshots' = snapshots \cup {SnapshotRecord(SnapshotNames[allocated + 1], "derived")}
    /\ images' = images \cup {ImageRecord(allocated + 1)}
    /\ UNCHANGED <<tags, file, pc, run, locals, outcome, observers>>

\* deregister_image: the image goes, its snapshot stays
DeregisterImage ==
    /\ \E ami \in images : images' = images \ {ami}
    /\ UNCHANGED <<snapshots, allocated, tags, file, pc, run, locals, outcome, observers>>

\* the account holds what create_image and deregister_image have left there
InitEnv ==
    /\ \E n \in 0..MaxSnapshots, registered \in SUBSET (1..MaxSnapshots) :
          /\ registered \subseteq 1..n
          /\ allocated = n
          /\ snapshots = {SnapshotRecord(SnapshotNames[i], "derived") : i \in 1..n}
          /\ images = {ImageRecord(i) : i \in registered}
    /\ tags = {}
    /\ file = Absent
    /\ InitMain

NextEnv == Main \/ CreateImage \/ DeregisterImage

SpecEnv == InitEnv /\ [][NextEnv]_vars

(* ------------------------- what the claims speak of ------------------- *)
\* the ids of the snapshots whose description carries the marker (a record
\* without an id counts as the empty id)
ImageDerivedSnapshots ==
    {IF "SnapshotId" \in DOMAIN s THEN s.SnapshotId ELSE EmptyString :
        s \in {r \in snapshots : "Description" \in DOMAIN r /\ Contains(Marker, r.Description)}}

\* the block-device mappings of the images that exist
Mappings ==
    UNION {{ami.BlockDeviceMappings[k] : k \in DOMAIN ami.BlockDeviceMappings} :
              ami \in {a \in images : "BlockDeviceMappings" \in DOMAIN a}}

\* the snapshot ids some mapping of some existing image references
ReferencedSnapshots ==
    {b.Ebs.SnapshotId :
        b \in {m \in Mappings : "Ebs" \in DOMAIN m /\ "SnapshotId" \in DOMAIN m.Ebs}}

Range(seq) == {seq[i] : i \in DOMAIN seq}
Ended == pc \in {"returned", "raised"}

\* C1: a run of main in which no call fails returns exactly A - B, A the ids
\* of the image-derived snapshots and B the snapshot ids the images'
\* mappings reference, however the records were split into pages.
C1_ReturnsDifference ==
    pc = "returned" => outcome.value = ImageDerivedSnapshots \ ReferencedSnapshots

\* C6: list_ami's set holds only snapshot ids some image references: a
\* mapping without an Ebs entry, or whose Ebs entry has no SnapshotId, adds
\* no element.
C6_OnlyReferencedIds == amis_set \subseteq ReferencedSnapshots

StepOrder == <<"list_snapshot", "list_ami", "grant_tag", "export_text">>
StepRank(step) == CHOOSE i \in DOMAIN StepOrder : StepOrder[i] = step

\* C2: the steps of a run start in the order list snapshots, list images,
\* create_tags, export, and a step starts only when every step before it
\* has completed without error.
C2_StepsInOrder ==
    /\ \A i, j \in DOMAIN started : i < j => StepRank(started[i]) < StepRank(started[j])
    /\ \A i \in DOMAIN started :
          \A k \in 1..(StepRank(started[i]) - 1) : StepOrder[k] \in done
C2_Witness == pc = "returned" /\ started = StepOrder

\* a create_tags request was issued and did not complete
TagRequestFailed == tagRequests # <<>> /\ "grant_tag" \notin done

\* C3, as claimed: when create_tags fails on a non-empty orphan set, the
\* export is skipped and the orphan set is still returned to main's caller.
C3_TagFailureStillReturns ==
    (TagRequestFailed /\ unassociated_snapshots # {}) =>
        /\ "export_text" \notin Range(started)
        /\ file = fileAtStart
        /\ outcome.kind = "returned"
        /\ outcome.value = unassociated_snapshots
\* C3, amended: when create_tags fails, the export is skipped and main
\* raises the wrapped exception; nothing is returned to the caller.
C3_TagFailureRaises ==
    TagRequestFailed =>
        /\ unassociated_snapshots # {}
        /\ "export_text" \notin Range(started)
        /\ file = fileAtStart
        /\ pc = "raised"
        /\ outcome.kind = "raised"
        /\ outcome.value = {}
C3_Witness == TagRequestFailed /\ pc = "raised" /\ fileAtStart.exists

\* C4, as claimed: the error of a failed run identifies the step that
\* failed: two runs that failed in different steps ended with different errors.
C4_ErrorIdentifiesStep ==
    (pc = "raised" /\ prev.outcome.kind = "raised" /\ prev.failed # failed) =>
        outcome.error # prev.outcome.error
\* C4, amended: a failing step ends the run with the exception of main's
\* except clause, whose message is the same whatever step failed and whose
\* cause is the exception the step raised.
C4_ErrorIsWrapped ==
    /\ (failed # "") = (pc = "raised")
    /\ pc = "raised" =>
          /\ outcome.kind = "raised"
          /\ outcome.error.msg = MainErrorMsg
          /\ outcome.error.cause # NoCause
          /\ failed \notin done
          /\ started[Len(started)] = failed
C4_Witness ==
    /\ pc = "raised" /\ prev.outcome.kind = "raised" /\ prev.failed # failed
    /\ outcome.error = prev.outcome.error

\* the lines of a text: what precedes each newline
Lines(content) == [k \in 1..(Len(content) \div 2) |-> content[2 * k - 1]]
WellFormedText(content) ==
    /\ Len(content) % 2 = 0
    /\ \A k \in 1..(Len(content) \div 2) : content[2 * k] = Newline
AbsentOrEmpty(f) == ~f.exists \/ f.content = <<>>

\* C5, as claimed: at the end of every run, an absent or empty export file
\* means the run's orphan set was empty and the run did not fail, and a
\* non-empty orphan set means the run has overwritten the file.
C5_EmptyFileMeansNoOrphans ==
    Ended =>
        /\ AbsentOrEmpty(file) => (pc = "returned" /\ unassociated_snapshots = {})
        /\ unassociated_snapshots # {} => "export_text" \in done
\* C5, amended: at the end of every run that ended normally, an absent or
\* empty export file means the run's orphan set was empty, and a non-empty
\* orphan set means the file now holds exactly the orphan ids, one per line.
C5_ExportAfterNormalEnd ==
    pc = "returned" =>
        /\ AbsentOrEmpty(file) => outcome.value = {}
        /\ outcome.value # {} =>
              /\ file.exists
              /\ WellFormedText(file.content)
              /\ Range(Lines(file.content)) = outcome.value
              /\ Len(Lines(file.content)) = Cardinality(outcome.value)
C5_Witness ==
    /\ pc = "returned" /\ outcome.value # {} /\ fileAtStart.exists
    /\ fileAtStart # file /\ run > 1

\* C7: when the orphan set is empty the run issues no create_tags request,
\* neither opens nor writes the export file, and returns the empty set.
C7_EmptyOrphanSetNoEffect ==
    (pc \in {"grant_tag", "export_open", "export_write", "returned"}
        /\ unassociated_snapshots = {}) =>
        /\ pc = "returned"
        /\ tagRequests = <<>>
        /\ Range(started) \cap {"grant_tag", "export_text"} = {}
        /\ tags = tagsAtStart
        /\ file = fileAtStart
        /\ outcome.value = {}
C7_Witness ==
    /\ pc = "returned" /\ unassociated_snapshots = {} /\ file = StaleFile
    /\ ImageDerivedSnapshots # {}

\* C8: of two successive runs against an unchanged provider that both end
\* normally, the second returns the orphan set of the first and leaves the
\* provider's tags as the first left them, each orphan snapshot carrying
\* NotAttachedAMI=True and no second NotAttachedAMI tag.
C8_Idempotent ==
    (pc = "returned" /\ prev.outcome.kind = "returned") =>
        /\ outcome.value = prev.outcome.value
        /\ tags = prev.tags
        /\ \A id \in outcome.value :
              {t \in tags : t.Resource = id /\ t.Key = "NotAttachedAMI"}
                  = {[Resource |-> id, Key |-> "NotAttachedAMI", Value |-> "True"]}
C8_Witness ==
    pc = "returned" /\ prev.outcome.kind = "returned" /\ Cardinality(outcome.value) > 1

OrphanTags(ids) == {[Resource |-> id, Key |-> "NotAttachedAMI", Value |-> "True"] : id \in ids}

\* C9: a run changes the provider only by one create_tags request whose
\* resources are the orphan set: after a run that ended normally every
\* orphan snapshot has NotAttachedAMI=True, no other tag has changed, and
\* the snapshots and images are the ones that were there.
C9_OnlyOrphansTagged ==
    /\ [](Len(tagRequests) <= 1)
    /\ [](\A i \in DOMAIN tagRequests : tagRequests[i] = unassociated_snapshots)
    /\ [](pc = "returned" => tags = tagsAtStart \cup OrphanTags(outcome.value))
    /\ [][/\ snapshots' = snapshots
          /\ images' = images
          /\ tags' # tags => /\ pc = "grant_tag"
                             /\ tags' = tags \cup OrphanTags(unassociated_snapshots)]_vars
C9_Witness ==
    /\ pc = "returned" /\ outcome.value # {} /\ tagsAtStart # {}
    /\ tags # tagsAtStart /\ snapshots_set # outcome.value

\* C10: with images created and deregistered by others between any two
\* steps of a run, no snapshot id handed to create_tags is referenced by an
\* image that exists when the request is issued.
C10_NoReferencedSnapshotTagged ==
    pc = "grant_tag" => TagResources(unassociated_snapshots) \cap ReferencedSnapshots = {}
C10_Witness ==
    /\ pc = "grant_tag"
    /\ \E s \in snapshots : /\ s.SnapshotId \notin snapshots_set
                            /\ s.SnapshotId \in ReferencedSnapshots
    /\ unassociated_snapshots # {}

====
